---------------------------- MODULE Spec2Model ----------------------------
(***************************************************************************)
(* doc/foxbox_taxonomy/devices/sidebar-items.js is one statement: a call   *)
(* of initSidebarItems on an object literal.  The module holds the text of *)
(* the file, character by character, and the evaluation of that text: the  *)
(* scan of the callee, of the string literals (with their escape           *)
(* sequences), of the array and object literals, and the call itself,      *)
(* which registers the evaluated object.                                   *)
(*                                                                         *)
(* A character is a string of length one, but for the grave accent, which  *)
(* a string of this language cannot hold and which is written Grave.  A    *)
(* string value of the script is the sequence of its characters.           *)
(***************************************************************************)
EXTENDS Naturals, Sequences, FiniteSets

VARIABLES pos, pc, callee, buf, stack, arg, registry, calls

vars == << pos, pc, callee, buf, stack, arg, registry, calls >>

-----------------------------------------------------------------------------
(* The text of the file, by the pieces of its literal.                     *)

\* The grave accent (code 96).
Grave == "grave"

\* The only entry of the enum category: ChannelKind and its summary, which
\* holds four escaped double quotes.
ChannelKindEntry ==
    << "[", "\"", "C", "h", "a", "n", "n", "e", "l", "K", "i", "n", "d", "\"",
       ",", "\"", "T", "h", "e", " ", "k", "i", "n", "d", " ", "o", "f", " ",
       "t", "h", "e", " ", "s", "e", "r", "v", "i", "c", "e", ",", " ", "i",
       ".", "e", ".", " ", "a", " ", "s", "t", "r", "o", "n", "g", "l", "y",
       "-", "t", "y", "p", "e", "d", " ", "d", "e", "s", "c", "r", "i", "p",
       "t", "i", "o", "n", " ", "o", "f", " ", "_", "w", "h", "a", "t", "_",
       " ", "t", "h", "e", " ", "s", "e", "r", "v", "i", "c", "e", " ", "c",
       "a", "n", " ", "d", "o", ".", " ", "U", "s", "e", "d", " ", "b", "o",
       "t", "h", " ", "f", "o", "r", " ", "l", "o", "c", "a", "t", "i", "n",
       "g", " ", "s", "e", "r", "v", "i", "c", "e", "s", " ", "(", "e", ".",
       "g", ".", " ", "\\", "\"", "I", " ", "n", "e", "e", "d", " ", "a", " ",
       "c", "l", "o", "c", "k", "\\", "\"", " ", "o", "r", " ", "\\", "\"", "I",
       " ", "n", "e", "e", "d", " ", "s", "o", "m", "e", "t", "h", "i", "n",
       "g", " ", "t", "h", "a", "t", " ", "c", "a", "n", " ", "p", "r", "o",
       "v", "i", "d", "e", " ", "p", "i", "c", "t", "u", "r", "e", "s", "\\",
       "\"", ")", " ", "a", "n", "d", " ", "f", "o", "r", " ", "d", "e", "t",
       "e", "r", "m", "i", "n", "i", "n", "g", " ", "t", "h", "e", " ", "d",
       "a", "t", "a", " ", "s", "t", "r", "u", "c", "t", "u", "r", "e", " ",
       "t", "h", "a", "t", " ", "t", "h", "e", "s", "e", " ", "s", "e", "r",
       "v", "i", "c", "e", "s", " ", "c", "a", "n", " ", "p", "r", "o", "v",
       "i", "d", "e", " ", "o", "r", " ", "c", "o", "n", "s", "u", "m", "e",
       ".", "\"", "]" >>

\* First entry of the struct category: Channel and its summary.
ChannelEntry ==
    << "[", "\"", "C", "h", "a", "n", "n", "e", "l", "\"", ",", "\"", "A", "n",
       " ", "c", "h", "a", "n", "n", "e", "l", " ", "r", "e", "p", "r", "e",
       "s", "e", "n", "t", "s", " ", "a", " ", "s", "i", "n", "g", "l", "e",
       " ", "p", "l", "a", "c", "e", " ", "w", "h", "e", "r", "e", " ", "d",
       "a", "t", "a", " ", "c", "a", "n", " ", "e", "n", "t", "e", "r", " ",
       "o", "r", " ", "l", "e", "a", "v", "e", " ", "a", " ", "d", "e", "v",
       "i", "c", "e", ".", " ", "N", "o", "t", "e", " ", "t", "h", "a", "t",
       " ", "c", "h", "a", "n", "n", "e", "l", "s", " ", "s", "u", "p", "p",
       "o", "r", "t", " ", "e", "i", "t", "h", "e", "r", " ", "a", " ", "s",
       "i", "n", "g", "l", "e", " ", "k", "i", "n", "d", " ", "o", "f", " ",
       "g", "e", "t", "t", "e", "r", " ", "o", "r", " ", "a", " ", "s", "i",
       "n", "g", "l", "e", " ", "k", "i", "n", "d", " ", "o", "f", " ", "s",
       "e", "t", "t", "e", "r", ".", " ", "D", "e", "v", "i", "c", "e", "s",
       " ", "t", "h", "a", "t", " ", "s", "u", "p", "p", "o", "r", "t", " ",
       "b", "o", "t", "h", " ", "g", "e", "t", "t", "e", "r", "s", " ", "o",
       "r", " ", "s", "e", "t", "t", "e", "r", "s", ",", " ", "o", "r", " ",
       "s", "e", "v", "e", "r", "a", "l", " ", "k", "i", "n", "d", "s", " ",
       "o", "f", " ", "g", "e", "t", "t", "e", "r", "s", ",", " ", "o", "r",
       " ", "s", "e", "v", "e", "r", "a", "l", " ", "k", "i", "n", "d", "s",
       " ", "o", "f", " ", "s", "e", "t", "t", "e", "r", "s", ",", " ", "a",
       "r", "e", " ", "r", "e", "p", "r", "e", "s", "e", "n", "t", "e", "d",
       " ", "a", "s", " ", "n", "o", "d", "e", "s", " ", "c", "o", "n", "t",
       "a", "i", "n", "i", "n", "g", " ", "s", "e", "v", "e", "r", "a", "l",
       " ", "c", "h", "a", "n", "n", "e", "l", "s", ".", "\"", "]" >>

\* GetterEntry as a generator that keeps the line break of a doc comment would
\* emit it: the summary holds the escape sequence for a line feed.
GetterEntryLineBreak ==
    << "[", "\"", "G", "e", "t", "t", "e", "r", "\"", ",", "\"", "A", " ", "g",
       "e", "t", "t", "e", "r", " ", "o", "p", "e", "r", "a", "t", "i", "o",
       "n", "\\", "n", "a", "v", "a", "i", "l", "a", "b", "l", "e", " ", "o",
       "n", " ", "a", " ", "c", "h", "a", "n", "n", "e", "l", ".", "\"", "]" >>

\* GetterEntry as a generator that repeats the name of the previous item would
\* emit it.
GetterEntryDuplicate ==
    << "[", "\"", "C", "h", "a", "n", "n", "e", "l", "\"", ",", "\"", "A", " ",
       "g", "e", "t", "t", "e", "r", " ", "o", "p", "e", "r", "a", "t", "i",
       "o", "n", " ", "a", "v", "a", "i", "l", "a", "b", "l", "e", " ", "o",
       "n", " ", "a", " ", "c", "h", "a", "n", "n", "e", "l", ".", "\"", "]" >>

\* Second entry of the struct category: Getter and its summary.
GetterEntry ==
    << "[", "\"", "G", "e", "t", "t", "e", "r", "\"", ",", "\"", "A", " ", "g",
       "e", "t", "t", "e", "r", " ", "o", "p", "e", "r", "a", "t", "i", "o",
       "n", " ", "a", "v", "a", "i", "l", "a", "b", "l", "e", " ", "o", "n",
       " ", "a", " ", "c", "h", "a", "n", "n", "e", "l", ".", "\"", "]" >>

\* Third entry of the struct category: Node and its summary.
NodeEntry ==
    << "[", "\"", "N", "o", "d", "e", "\"", ",", "\"", "M", "e", "t", "a", "d",
       "a", "t", "a", " ", "o", "n", " ", "a", " ", "n", "o", "d", "e", ".",
       " ", "A", " ", "n", "o", "d", "e", " ", "i", "s", " ", "a", " ", "d",
       "e", "v", "i", "c", "e", " ", "o", "r", " ", "c", "o", "l", "l", "e",
       "c", "t", "i", "o", "n", " ", "o", "f", " ", "d", "e", "v", "i", "c",
       "e", "s", " ", "t", "h", "a", "t", " ", "m", "a", "y", " ", "o", "f",
       "f", "e", "r", " ", "s", "e", "r", "v", "i", "c", "e", "s", ".", " ",
       "T", "h", "e", " ", "F", "o", "x", "B", "o", "x", " ", "i", "t", "s",
       "e", "l", "f", " ", "a", " ", "n", "o", "d", "e", " ", "o", "f", "f",
       "e", "r", "i", "n", "g", " ", "s", "e", "r", "v", "i", "c", "e", "s",
       " ", "s", "u", "c", "h", " ", "a", "s", " ", "a", " ", "c", "l", "o",
       "c", "k", ",", " ", "c", "o", "m", "m", "u", "n", "i", "c", "a", "t",
       "i", "o", "n", " ", "w", "i", "t", "h", " ", "t", "h", "e", " ", "u",
       "s", "e", "r", " ", "t", "h", "r", "o", "u", "g", "h", " ", "h", "e",
       "r", " ", "s", "m", "a", "r", "t", " ", "d", "e", "v", "i", "c", "e",
       "s", ",", " ", "e", "t", "c", ".", "\"", "]" >>

\* NodeIdEntry as a generator that drops the summary would emit it: an entry
\* of one element.
NodeIdEntryNoSummary ==
    << "[", "\"", "N", "o", "d", "e", "I", "d", "\"", "]" >>

\* NodeIdEntry as a generator that HTML-escapes the summary would emit it.
NodeIdEntryEscaped ==
    << "[", "\"", "N", "o", "d", "e", "I", "d", "\"", ",", "\"", "A", " ", "m",
       "a", "r", "k", "e", "r", " ", "f", "o", "r", " ", "I", "d", ".", " ",
       "O", "n", "l", "y", " ", "u", "s", "e", "f", "u", "l", " ", "f", "o",
       "r", " ", "w", "r", "i", "t", "i", "n", "g", " ", Grave, "I", "d", "&",
       "l", "t", ";", "N", "o", "d", "e", "I", "d", "&", "g", "t", ";", Grave,
       ".", "\"", "]" >>

\* Fourth entry of the struct category: NodeId and its summary, which holds
\* the characters < and > as they are.
NodeIdEntry ==
    << "[", "\"", "N", "o", "d", "e", "I", "d", "\"", ",", "\"", "A", " ", "m",
       "a", "r", "k", "e", "r", " ", "f", "o", "r", " ", "I", "d", ".", " ",
       "O", "n", "l", "y", " ", "u", "s", "e", "f", "u", "l", " ", "f", "o",
       "r", " ", "w", "r", "i", "t", "i", "n", "g", " ", Grave, "I", "d", "<",
       "N", "o", "d", "e", "I", "d", ">", Grave, ".", "\"", "]" >>

\* SetterEntry with the name misspelt.
SetterEntryMisnamed ==
    << "[", "\"", "S", "e", "t", "t", "o", "r", "\"", ",", "\"", "A", "n", " ",
       "s", "e", "t", "t", "e", "r", " ", "o", "p", "e", "r", "a", "t", "i",
       "o", "n", " ", "a", "v", "a", "i", "l", "a", "b", "l", "e", " ", "o",
       "n", " ", "a", "n", " ", "c", "h", "a", "n", "n", "e", "l", ".", "\"",
       "]" >>

\* Fifth entry of the struct category: Setter and its summary.
SetterEntry ==
    << "[", "\"", "S", "e", "t", "t", "e", "r", "\"", ",", "\"", "A", "n", " ",
       "s", "e", "t", "t", "e", "r", " ", "o", "p", "e", "r", "a", "t", "i",
       "o", "n", " ", "a", "v", "a", "i", "l", "a", "b", "l", "e", " ", "o",
       "n", " ", "a", "n", " ", "c", "h", "a", "n", "n", "e", "l", ".", "\"",
       "]" >>

\* IOMechanismEntry as emitted for an item without a doc comment.
IOMechanismEntryEmptySummary ==
    << "[", "\"", "I", "O", "M", "e", "c", "h", "a", "n", "i", "s", "m", "\"",
       ",", "\"", "\"", "]" >>

\* The only entry of the trait category: IOMechanism and its summary.
IOMechanismEntry ==
    << "[", "\"", "I", "O", "M", "e", "c", "h", "a", "n", "i", "s", "m", "\"",
       ",", "\"", "T", "h", "e", " ", "c", "o", "m", "m", "u", "n", "i", "c",
       "a", "t", "i", "o", "n", " ", "m", "e", "c", "h", "a", "n", "i", "s",
       "m", " ", "u", "s", "e", "d", " ", "b", "y", " ", "t", "h", "e", " ",
       "c", "h", "a", "n", "n", "e", "l", ".", "\"", "]" >>

\* The name of the function the file calls.
InitSidebarItemsName ==
    << "i", "n", "i", "t", "S", "i", "d", "e", "b", "a", "r", "I", "t", "e",
       "m", "s" >>

\* The three property names of the object literal, quoted as in the file.
EnumKey == << "\"", "e", "n", "u", "m", "\"" >>

StructKey == << "\"", "s", "t", "r", "u", "c", "t", "\"" >>

TraitKey == << "\"", "t", "r", "a", "i", "t", "\"" >>

\* The value of the enum property: an array literal of one entry.
EnumItems == << "[" >> \o ChannelKindEntry \o << "]" >>

\* StructItems as a generator that loses the last item would emit it.
StructItemsShort ==
    << "[" >> \o ChannelEntry \o << "," >> \o GetterEntry \o << "," >>
        \o NodeEntry \o << "," >> \o NodeIdEntry \o << "]" >>

\* StructItems as a generator that emits the items in declaration order
\* rather than sorted would emit it.
StructItemsUnsorted ==
    << "[" >> \o NodeEntry \o << "," >> \o NodeIdEntry \o << "," >>
        \o ChannelEntry \o << "," >> \o GetterEntry \o << "," >>
        \o SetterEntry \o << "]" >>

\* The value of the struct property: an array literal of five entries.
StructItems ==
    << "[" >> \o ChannelEntry \o << "," >> \o GetterEntry \o << "," >>
        \o NodeEntry \o << "," >> \o NodeIdEntry \o << "," >>
        \o SetterEntry \o << "]" >>

\* The value of the trait property: an array literal of one entry.
TraitItems == << "[" >> \o IOMechanismEntry \o << "]" >>

\* The object literal of the file.
ObjectLiteral ==
    << "{" >> \o EnumKey \o << ":" >> \o EnumItems \o << "," >>
        \o StructKey \o << ":" >> \o StructItems \o << "," >>
        \o TraitKey \o << ":" >> \o TraitItems \o << "}" >>

\* Src as a generator that also emits an empty category would emit it.
SrcExtraCategory ==
    InitSidebarItemsName \o << "(" >>
        \o << "{" >> \o EnumKey \o << ":" >> \o EnumItems \o << "," >>
        \o << "\"", "f", "n", "\"", ":", "[", "]", "," >>
        \o StructKey \o << ":" >> \o StructItems \o << "," >>
        \o TraitKey \o << ":" >> \o TraitItems \o << "}" >>
        \o << ")", ";" >>

\* Src with a second statement that registers an empty object.
SrcSecondCall ==
    InitSidebarItemsName \o << "(" >> \o ObjectLiteral \o << ")", ";" >>
        \o InitSidebarItemsName \o << "(", "{", "}", ")", ";" >>

\* The whole file: initSidebarItems(<object literal>);
Src == InitSidebarItemsName \o << "(" >> \o ObjectLiteral \o << ")", ";" >>

-----------------------------------------------------------------------------
(* Characters.                                                             *)

\* The printable characters in the order of their code units, from the
\* space (code 32) to the tilde (code 126).
Printable ==
    << " ", "!", "\"", "#", "$", "%", "&", "'", "(", ")", "*", "+", ",", "-",
       ".", "/", "0", "1", "2", "3", "4", "5", "6", "7", "8", "9", ":", ";",
       "<", "=", ">", "?", "@", "A", "B", "C", "D", "E", "F", "G", "H", "I",
       "J", "K", "L", "M", "N", "O", "P", "Q", "R", "S", "T", "U", "V", "W",
       "X", "Y", "Z", "[", "\\", "]", "^", "_", Grave, "a", "b", "c", "d", "e",
       "f", "g", "h", "i", "j", "k", "l", "m", "n", "o", "p", "q", "r", "s",
       "t", "u", "v", "w", "x", "y", "z", "{", "|", "}", "~" >>

\* The code unit of a printable character.
Code(c) == 31 + (CHOOSE i \in DOMAIN Printable : Printable[i] = c)

IsPrintable(c) == \E i \in DOMAIN Printable : Printable[i] = c

IsDigit(c) == IsPrintable(c) /\ Code(c) \in 48..57

IsLetter(c) == IsPrintable(c) /\ (Code(c) \in 65..90 \/ Code(c) \in 97..122)

\* A character of an identifier: a letter, a digit, _ or $.
IsIdentChar(c) == IsLetter(c) \/ IsDigit(c) \/ c \in {"_", "$"}

\* The character an escape sequence \c of a string literal stands for.
Unescape(c) ==
    CASE c = "n" -> "\n"
      [] c = "t" -> "\t"
      [] c = "r" -> "\r"
      [] c = "f" -> "\f"
      [] OTHER -> c

-----------------------------------------------------------------------------
(* Values and the frames of the literals under evaluation.                 *)

\* The value of registry and arg before any value is there.
Undefined == [t |-> "undefined", v |-> << >>]

\* A string value: v is the sequence of its characters.
StrVal(chars) == [t |-> "string", v |-> chars]

\* An array value: v is the sequence of its elements.
ArrVal(elems) == [t |-> "array", v |-> elems]

\* An object value: v is the sequence of its properties, [key, value], in
\* the order of their creation.
ObjVal(props) == [t |-> "object", v |-> props]

\* An array or object literal whose closing bracket is not read yet.  In
\* an object frame, hk tells that the key k is read and its value is not.
ArrFrame == [t |-> "array", v |-> << >>, k |-> << >>, hk |-> FALSE]

ObjFrame == [t |-> "object", v |-> << >>, k |-> << >>, hk |-> FALSE]

\* The properties props after the definition of property k with value val:
\* a later definition of the same key replaces the value and keeps the
\* position.
DefineProp(props, k, val) ==
    IF \E i \in DOMAIN props : props[i].key = k
    THEN LET i == CHOOSE i \in DOMAIN props : props[i].key = k
         IN  [props EXCEPT ![i] = [key |-> k, value |-> val]]
    ELSE Append(props, [key |-> k, value |-> val])

\* The frame after the value val is evaluated inside it: an element of an
\* array, the key of an object's next property, or the value of that
\* property.
Put(frame, val) ==
    IF frame.t = "array"
    THEN [frame EXCEPT !.v = Append(@, val)]
    ELSE IF ~frame.hk
         THEN [frame EXCEPT !.k = val.v, !.hk = TRUE]
         ELSE [frame EXCEPT !.v = DefineProp(@, frame.k, val),
                            !.k = << >>, !.hk = FALSE]

\* The stack after the value val is evaluated: val goes to the innermost
\* open literal.
Deliver(stk, val) ==
    IF Len(stk) = 0 THEN stk
    ELSE [stk EXCEPT ![Len(stk)] = Put(@, val)]

\* The argument of the call after the value val is evaluated: val itself
\* when no literal is open.
DeliverArg(stk, val, old) == IF Len(stk) = 0 THEN val ELSE old

Top == stack[Len(stack)]

Pop(stk) == SubSeq(stk, 1, Len(stk) - 1)

\* The next character of the text.
More == pos <= Len(Src)

Cur == Src[pos]

\* The next token is the key of an object's property.
KeyExpected == Len(stack) > 0 /\ Top.t = "object" /\ ~Top.hk

-----------------------------------------------------------------------------
(* The evaluation of the file.                                             *)

Init ==
    /\ pos = 1
    /\ pc = "callee"
    /\ callee = << >>
    /\ buf = << >>
    /\ stack = << >>
    /\ arg = Undefined
    /\ registry = Undefined
    /\ calls = 0

\* One character of the callee's identifier.
ScanCallee ==
    /\ pc = "callee" /\ More /\ IsIdentChar(Cur)
    /\ callee' = Append(callee, Cur)
    /\ pos' = pos + 1
    /\ UNCHANGED << pc, buf, stack, arg, registry, calls >>

\* The opening parenthesis of the call.
OpenCall ==
    /\ pc = "callee" /\ More /\ Cur = "(" /\ Len(callee) > 0
    /\ pc' = "value"
    /\ pos' = pos + 1
    /\ stack' = << >>
    /\ arg' = Undefined
    /\ UNCHANGED << callee, buf, registry, calls >>

\* The opening quote of a string literal.
OpenString ==
    /\ pc = "value" /\ More /\ Cur = "\""
    /\ pc' = "string"
    /\ buf' = << >>
    /\ pos' = pos + 1
    /\ UNCHANGED << callee, stack, arg, registry, calls >>

\* A character of a string literal that stands for itself.
StringChar ==
    /\ pc = "string" /\ More /\ Cur \notin {"\"", "\\"}
    /\ buf' = Append(buf, Cur)
    /\ pos' = pos + 1
    /\ UNCHANGED << pc, callee, stack, arg, registry, calls >>

\* An escape sequence of a string literal: a backslash and a character.
StringEscape ==
    /\ pc = "string" /\ More /\ Cur = "\\" /\ pos + 1 <= Len(Src)
    /\ buf' = Append(buf, Unescape(Src[pos + 1]))
    /\ pos' = pos + 2
    /\ UNCHANGED << pc, callee, stack, arg, registry, calls >>

\* The closing quote of a string literal: the string is evaluated.
CloseString ==
    /\ pc = "string" /\ More /\ Cur = "\""
    /\ stack' = Deliver(stack, StrVal(buf))
    /\ arg' = DeliverArg(stack, StrVal(buf), arg)
    /\ buf' = << >>
    /\ pc' = "after"
    /\ pos' = pos + 1
    /\ UNCHANGED << callee, registry, calls >>

\* The opening bracket of an array literal.
OpenArray ==
    /\ pc = "value" /\ More /\ Cur = "[" /\ ~KeyExpected
    /\ stack' = Append(stack, ArrFrame)
    /\ pos' = pos + 1
    /\ UNCHANGED << pc, callee, buf, arg, registry, calls >>

\* The closing bracket of an array literal: the array is evaluated.
CloseArray ==
    /\ More /\ Cur = "]" /\ Len(stack) > 0 /\ Top.t = "array"
    /\ pc = "after" \/ (pc = "value" /\ Len(Top.v) = 0)
    /\ stack' = Deliver(Pop(stack), ArrVal(Top.v))
    /\ arg' = DeliverArg(Pop(stack), ArrVal(Top.v), arg)
    /\ pc' = "after"
    /\ pos' = pos + 1
    /\ UNCHANGED << callee, buf, registry, calls >>

\* The opening brace of an object literal.
OpenObject ==
    /\ pc = "value" /\ More /\ Cur = "{" /\ ~KeyExpected
    /\ stack' = Append(stack, ObjFrame)
    /\ pos' = pos + 1
    /\ UNCHANGED << pc, callee, buf, arg, registry, calls >>

\* The colon between the key of a property and its value.
Colon ==
    /\ pc = "after" /\ More /\ Cur = ":"
    /\ Len(stack) > 0 /\ Top.t = "object" /\ Top.hk
    /\ pc' = "value"
    /\ pos' = pos + 1
    /\ UNCHANGED << callee, buf, stack, arg, registry, calls >>

\* The comma between two elements or two properties.
Comma ==
    /\ pc = "after" /\ More /\ Cur = ","
    /\ Len(stack) > 0 /\ ~Top.hk
    /\ pc' = "value"
    /\ pos' = pos + 1
    /\ UNCHANGED << callee, buf, stack, arg, registry, calls >>

\* The closing brace of an object literal: the object is evaluated.
CloseObject ==
    /\ More /\ Cur = "}" /\ Len(stack) > 0 /\ Top.t = "object" /\ ~Top.hk
    /\ pc = "after" \/ (pc = "value" /\ Len(Top.v) = 0)
    /\ stack' = Deliver(Pop(stack), ObjVal(Top.v))
    /\ arg' = DeliverArg(Pop(stack), ObjVal(Top.v), arg)
    /\ pc' = "after"
    /\ pos' = pos + 1
    /\ UNCHANGED << callee, buf, registry, calls >>

\* The closing parenthesis: the call.  initSidebarItems registers its
\* argument.
CloseCall ==
    /\ pc = "after" /\ More /\ Cur = ")" /\ Len(stack) = 0
    /\ callee = InitSidebarItemsName
    /\ registry' = arg
    /\ calls' = calls + 1
    /\ pc' = "end"
    /\ pos' = pos + 1
    /\ UNCHANGED << callee, buf, stack, arg >>

\* The semicolon that ends the statement: the next statement follows, or
\* the file ends.
EndStatement ==
    /\ pc = "end" /\ More /\ Cur = ";"
    /\ pc' = IF pos + 1 > Len(Src) THEN "done" ELSE "callee"
    /\ callee' = << >>
    /\ pos' = pos + 1
    /\ UNCHANGED << buf, stack, arg, registry, calls >>

Next ==
    \/ ScanCallee
    \/ OpenCall
    \/ OpenString
    \/ StringChar
    \/ StringEscape
    \/ CloseString
    \/ OpenArray
    \/ CloseArray
    \/ OpenObject
    \/ Colon
    \/ Comma
    \/ CloseObject
    \/ CloseCall
    \/ EndStatement

Spec == Init /\ [][Next]_vars

-----------------------------------------------------------------------------
(* The vocabulary of the properties.                                       *)

EnumName == << "e", "n", "u", "m" >>

StructName == << "s", "t", "r", "u", "c", "t" >>

TraitName == << "t", "r", "a", "i", "t" >>

ChannelKindName == << "C", "h", "a", "n", "n", "e", "l", "K", "i", "n", "d" >>

ChannelName == << "C", "h", "a", "n", "n", "e", "l" >>

GetterName == << "G", "e", "t", "t", "e", "r" >>

NodeName == << "N", "o", "d", "e" >>

NodeIdName == << "N", "o", "d", "e", "I", "d" >>

SetterName == << "S", "e", "t", "t", "e", "r" >>

IOMechanismName == << "I", "O", "M", "e", "c", "h", "a", "n", "i", "s", "m" >>

\* initSidebarItems has been called.
Registered == calls > 0

\* The keys of the registry.
Categories == {registry.v[i].key : i \in DOMAIN registry.v}

\* The value registered under the category cat.
ValueOf(cat) ==
    registry.v[CHOOSE i \in DOMAIN registry.v : registry.v[i].key = cat].value

\* The number of entries of the category cat.
CountOf(cat) == IF cat \in Categories THEN Len(ValueOf(cat).v) ELSE 0

\* An entry is a pair of two strings.
IsPair(e) ==
    /\ e.t = "array"
    /\ Len(e.v) = 2
    /\ e.v[1].t = "string"
    /\ e.v[2].t = "string"

\* Every value of the registry is an array of pairs.
WellShaped ==
    /\ registry.t = "object"
    /\ \A i \in DOMAIN registry.v :
          /\ registry.v[i].value.t = "array"
          /\ \A j \in DOMAIN registry.v[i].value.v :
                IsPair(registry.v[i].value.v[j])

\* The positions of the entries: category i, entry j.
EntryIds ==
    UNION { { << i, j >> : j \in DOMAIN registry.v[i].value.v } :
            i \in DOMAIN registry.v }

NameAt(i, j) == registry.v[i].value.v[j].v[1].v

SummaryAt(i, j) == registry.v[i].value.v[j].v[2].v

\* The names of the category cat.
NamesOf(cat) == {ValueOf(cat).v[j].v[1].v : j \in DOMAIN ValueOf(cat).v}

Contains(s, c) == \E n \in DOMAIN s : s[n] = c

\* The ampersand at position n of s starts an entity: a name or a number,
\* then a semicolon.
StartsEntity(s, n) ==
    \E m \in (n + 2)..Len(s) :
        /\ s[m] = ";"
        /\ \A q \in (n + 1)..(m - 1) :
              IsLetter(s[q]) \/ IsDigit(s[q]) \/ s[q] = "#"

\* s holds a character that HTML-escaping would have replaced.
HasRawHtml(s) ==
    \E n \in DOMAIN s :
        \/ s[n] \in {"<", ">"}
        \/ s[n] = "&" /\ ~StartsEntity(s, n)

\* a sorts strictly before b in the order of the code units.
StrLess(a, b) ==
    \E n \in 1..(Len(a) + 1) :
        /\ \A m \in 1..(n - 1) : m <= Len(b) /\ a[m] = b[m]
        /\ \/ n = Len(a) + 1 /\ n <= Len(b)
           \/ n <= Len(a) /\ n <= Len(b) /\ Code(a[n]) < Code(b[n])

-----------------------------------------------------------------------------
(* The properties.                                                         *)

\* C1: the object passed to initSidebarItems has exactly the three keys
\* enum, struct and trait.
C1_ExactKeys ==
    Registered =>
        /\ registry.t = "object"
        /\ Categories = {EnumName, StructName, TraitName}
        /\ Len(registry.v) = 3

C1_Witness ==
    Registered /\ registry.t = "object" /\ Cardinality(Categories) = 3

\* C2: the value of every category is a sequence, and each of its elements
\* is a pair [name, summary] of two strings.
C2_EntriesArePairs == Registered => WellShaped

C2_Witness ==
    /\ Registered
    /\ \E i \in DOMAIN registry.v :
          /\ Len(registry.v[i].value.v) = 5
          /\ IsPair(registry.v[i].value.v[5])

\* C3: within a category, no two entries at different positions have the
\* same name.
C3_NamesDistinct ==
    Registered =>
        \A i \in DOMAIN registry.v :
            \A j, k \in DOMAIN registry.v[i].value.v :
                j # k => NameAt(i, j) # NameAt(i, k)

C3_Witness ==
    /\ Registered
    /\ \E i \in DOMAIN registry.v :
          \E j, k \in DOMAIN registry.v[i].value.v :
              j # k /\ NameAt(i, j) = ChannelName /\ NameAt(i, k) = GetterName

\* C4: the names of enum are {ChannelKind}, those of struct are {Channel,
\* Getter, Node, NodeId, Setter}, those of trait are {IOMechanism}.
C4_NamesExact ==
    Registered =>
        /\ {EnumName, StructName, TraitName} \subseteq Categories
        /\ NamesOf(EnumName) = {ChannelKindName}
        /\ NamesOf(StructName) =
              {ChannelName, GetterName, NodeName, NodeIdName, SetterName}
        /\ NamesOf(TraitName) = {IOMechanismName}

C4_Witness ==
    /\ Registered
    /\ StructName \in Categories
    /\ Cardinality(NamesOf(StructName)) = 5
    /\ SetterName \in NamesOf(StructName)

\* C5, as stated: the enum and struct categories hold five entries together
\* and the trait category holds one.
C5_FiveTypeNames ==
    Registered =>
        /\ CountOf(EnumName) + CountOf(StructName) = 5
        /\ CountOf(TraitName) = 1

\* C5, amended: the enum and struct categories hold six entries together
\* (one and five) and the trait category holds one.
C5_SixTypeNames ==
    Registered =>
        /\ CountOf(EnumName) = 1
        /\ CountOf(StructName) = 5
        /\ CountOf(EnumName) + CountOf(StructName) = 6
        /\ CountOf(TraitName) = 1

C5_Witness ==
    /\ Registered
    /\ CountOf(EnumName) + CountOf(StructName) > 5
    /\ CountOf(TraitName) > 0

\* C6, as stated: no summary holds a raw <, > or an & that starts no entity.
C6_SummariesEscaped ==
    Registered => \A ij \in EntryIds : ~HasRawHtml(SummaryAt(ij[1], ij[2]))

\* C6, amended: the summary of NodeId holds a raw < and a raw >, and no
\* other summary holds a raw <, > or an & that starts no entity.
C6_OnlyNodeIdRaw ==
    Registered =>
        \A ij \in EntryIds :
            IF NameAt(ij[1], ij[2]) = NodeIdName
            THEN /\ Contains(SummaryAt(ij[1], ij[2]), "<")
                 /\ Contains(SummaryAt(ij[1], ij[2]), ">")
            ELSE ~HasRawHtml(SummaryAt(ij[1], ij[2]))

C6_Witness ==
    /\ Registered
    /\ \E ij \in EntryIds :
          /\ NameAt(ij[1], ij[2]) = NodeIdName
          /\ HasRawHtml(SummaryAt(ij[1], ij[2]))
    /\ \E ij \in EntryIds : ~HasRawHtml(SummaryAt(ij[1], ij[2]))

\* C7: every summary has at least one character.
C7_SummariesNonEmpty ==
    Registered => \A ij \in EntryIds : Len(SummaryAt(ij[1], ij[2])) >= 1

C7_Witness ==
    /\ Registered
    /\ \E ij \in EntryIds :
          /\ NameAt(ij[1], ij[2]) = IOMechanismName
          /\ Len(SummaryAt(ij[1], ij[2])) >= 1

\* C8: no summary holds a line break (a line feed or a carriage return).
C8_SummariesOneLine ==
    Registered =>
        \A ij \in EntryIds :
            /\ ~Contains(SummaryAt(ij[1], ij[2]), "\n")
            /\ ~Contains(SummaryAt(ij[1], ij[2]), "\r")

\* A summary whose literal holds escape sequences is registered, unescaped.
C8_Witness ==
    /\ Registered
    /\ \E ij \in EntryIds :
          /\ Contains(SummaryAt(ij[1], ij[2]), "\"")
          /\ ~Contains(SummaryAt(ij[1], ij[2]), "\\")

\* C9: the file registers once, and once the registry is registered no step
\* changes it: it stays the evaluated literal.
C9_RegisteredOnceAndFrozen ==
    /\ [][Registered => (registry' = registry /\ calls' = calls)]_vars
    /\ [](Registered => registry = arg)
    /\ [](pc = "done" => calls = 1)

C9_Witness ==
    pc = "done" /\ calls = 1 /\ registry.t = "object" /\ registry = arg

\* C10: within a category, each name sorts strictly before the next one in
\* the order of the code units.
C10_NamesAscending ==
    Registered =>
        \A i \in DOMAIN registry.v :
            \A j \in DOMAIN registry.v[i].value.v :
                j > 1 => StrLess(NameAt(i, j - 1), NameAt(i, j))

\* Node, a proper prefix of NodeId, stands right before it.
C10_Witness ==
    /\ Registered
    /\ \E i \in DOMAIN registry.v :
          \E j \in DOMAIN registry.v[i].value.v :
              /\ j > 1
              /\ NameAt(i, j - 1) = NodeName
              /\ NameAt(i, j) = NodeIdName

=============================================================================
